---- MODULE Spec2Model ----
(***************************************************************************)
(* The signed-patch distribution and rollback system of                    *)
(* software/patch_orchestrator/src/lib.py (class PatchOrchestrator).       *)
(*                                                                         *)
(* Abstractions, each stated where it is used:                             *)
(*  - a path is a sequence of components, a component a sequence of        *)
(*    characters, so that str(path).startswith(str(base)) is the           *)
(*    character-level prefix test the code performs;                       *)
(*  - SHA-256 is collision free and Ed25519 is unforgeable: a digest is    *)
(*    the tagged message, a signature the tagged (signer, digest) pair;    *)
(*  - a compressed stream is a frame unit followed by one unit per tar     *)
(*    member; "one byte" of the payload is one unit;                       *)
(*  - the file system holds regular files only (symbolic links and special *)
(*    files are outside the system's scope); of a file's mode, only        *)
(*    whether the process may write the file is kept;                      *)
(*  - tarfile.extract is called without a filter, so the interpreter's     *)
(*    default decides: member names are followed as given, or (default     *)
(*    filter 'data') a member leaving the destination is refused;          *)
(*  - the asyncio event loop runs one coroutine at a time: the code        *)
(*    between two awaits is one atomic action;                             *)
(*  - time is the loop's clock in ms; it moves in SpecLatency only, from   *)
(*    one asyncio.sleep deadline to the next, and the synchronous          *)
(*    stretches of the operations take no time on it.                      *)
(***************************************************************************)
EXTENDS Integers, Sequences, FiniteSets, TLC

\* ------------------------------------------------------------- bounds
MaxData == 2      \* file contents are 1..MaxData
MaxKeys == 2      \* private keys are 1..MaxKeys
MaxTasks == 2     \* coroutines suspended at the same time
MaxEnv == 1       \* edits made by the environment (files written, patches tampered)
MaxClock == 250   \* the clock is followed up to this reading, in ms

\* ------------------------------------------------- program constants
BackupDelay == 5      \* asyncio.sleep(0.005), in ms
RollbackDelay == 10   \* asyncio.sleep(0.01), in ms
ApplyDelay == 5       \* asyncio.sleep(0.005), in ms
FormatVersion == 1    \* header["version"]
RollbackBudget == 200 \* SRS_PATCH_ROLLBACK_MAX = 0.200 s, in ms

\* ---------------------------------------------------------- sequences
Front(s) == SubSeq(s, 1, Len(s) - 1)
Last(s) == s[Len(s)]
Min(a, b) == IF a <= b THEN a ELSE b

\* str.startswith
StartsWith(s, pre) == Len(pre) <= Len(s) /\ SubSeq(s, 1, Len(pre)) = pre

\* -------------------------------------------------------------- paths
SEP == "/"
UP == <<".", ".">>                 \* the component ".."

SourceDir == << <<"s">> >>         \* /s
TargetDir == << <<"d">> >>         \* /d
SiblingDir == << <<"d", "x">> >>   \* /dx: a sibling whose name starts with the target's

FileA == << <<"a">> >>             \* a
FileSubB == << <<"u">>, <<"b">> >> \* u/b: a file in a sub-directory
RelPaths == {FileA, FileSubB}

EscapeSibling == << UP, <<"d", "x">>, <<"a">> >>   \* ../dx/a
EscapeFar == << UP, UP, <<"e">> >>                 \* ../../e

Data == 1..MaxData

\* A file is its content.  A file this process may not open for writing (its
\* mode has no write permission and the process is not privileged) is
\* written as the negated content; tar.add records the mode with the member.
ReadOnly(d) == 0 - d
IsReadOnly(v) == v < 0
Content(v) == IF v < 0 THEN 0 - v ELSE v

\* Path.resolve() on a path without symbolic links: ".." drops the component
\* before it, and stays at the root there.
RECURSIVE Resolve(_)
Resolve(p) ==
    IF p = <<>> THEN <<>>
    ELSE LET r == Resolve(Front(p))
             c == Last(p)
         IN IF c = UP THEN (IF r = <<>> THEN <<>> ELSE Front(r))
            ELSE Append(r, c)

\* str(path) of an absolute path: "/" for the root, else "/c1/c2...".
RECURSIVE StrParts(_)
StrParts(p) == IF p = <<>> THEN <<>> ELSE StrParts(Front(p)) \o <<SEP>> \o Last(p)
Str(p) == IF p = <<>> THEN <<SEP>> ELSE StrParts(p)

\* q is a path strictly inside directory dir (component-wise).
IsUnder(q, dir) == Len(q) > Len(dir) /\ SubSeq(q, 1, Len(dir)) = dir

\* ------------------------------------------------------- file system
\* A file system is a function from absolute file paths to contents; a tree
\* is a function from relative file paths to contents.
EmptyTree == [r \in {} |-> 0]

\* source_dir.rglob("*") filtered by is_file(), relative_to(source_dir)
TreeAt(fsys, dir) ==
    LET under == {q \in DOMAIN fsys : IsUnder(q, dir)}
        rels == {SubSeq(q, Len(dir) + 1, Len(q)) : q \in under}
    IN [r \in rels |-> fsys[dir \o r]]

WriteFile(fsys, q, d) == [x \in DOMAIN fsys \cup {q} |-> IF x = q THEN d ELSE fsys[x]]
RemoveFile(fsys, q) == [x \in DOMAIN fsys \ {q} |-> fsys[x]]

\* The file system holding tree t under dir and nothing else.
Planted(t, dir) ==
    [q \in {dir \o r : r \in DOMAIN t} |-> t[SubSeq(q, Len(dir) + 1, Len(q))]]

\* ------------------------------------------------------- key material
NoKey == [kind |-> "none", id |-> 0]
PrivKey(k) == [kind |-> "priv", id |-> k]
PrivKeys == {PrivKey(k) : k \in 1..MaxKeys}

\* priv.public_key() (Ed25519), sha256(priv_bytes)[:32] (fallback): the public
\* half is a function of the private half.
PublicOf(priv) == [kind |-> "pub", id |-> priv.id]
PubKeys == {PublicOf(k) : k \in PrivKeys}

\* generate_keypair(): the pairs it can return.
generate_keypair == {[priv |-> k, pub |-> PublicOf(k)] : k \in PrivKeys}

NoKeys == [priv |-> NoKey, pub |-> NoKey]

\* "priv" in signing_keys and "pub" in signing_keys
KeysPresent(sk) == sk.priv # NoKey /\ sk.pub # NoKey

\* An ensure_keys that generates a pair on every call.
ensure_keys_always(sk) == generate_keypair

\* ensure_keys(): the values signing_keys can have after the call.
ensure_keys(sk) == IF KeysPresent(sk) THEN {sk} ELSE generate_keypair

\* ------------------------------------------------ digest and signature
\* hashlib.sha256(m).digest()
Sha256(m) == [sha256 |-> m]

\* A signer that signs with a key of its own, not the one it is given.
SignUnkeyed(crypto, priv, digest) ==
    [alg |-> IF crypto THEN "ed25519" ELSE "sha256",
     by |-> 0, over |-> digest, flip |-> 0]

\* priv.sign(digest): Ed25519 with the cryptography library,
\* sha256(key + msg) in the fallback _DummyKey.
Sign(crypto, priv, digest) ==
    [alg |-> IF crypto THEN "ed25519" ELSE "sha256", by |-> priv.id,
     over |-> digest, flip |-> 0]

\* A fallback key that checks signatures as Ed25519 does.
VerifyAcceptsChecked(crypto, pub, sig, digest) ==
    /\ sig.by = pub.id
    /\ sig.over = digest
    /\ sig.flip = 0

\* pub.verify(sig, digest) returns (TRUE) or raises InvalidSignature (FALSE).
\* The fallback _DummyKey.verify returns None for every signature.
VerifyAccepts(crypto, pub, sig, digest) ==
    IF crypto
    THEN sig = [alg |-> "ed25519", by |-> pub.id, over |-> digest, flip |-> 0]
    ELSE TRUE

\* bytes.hex() and bytes.fromhex(): the header carries the signature as text.
ToHex(sig) == [enc |-> "hex", bytes |-> sig]
FromHexOk(h) == h.enc = "hex"
FromHex(h) == h.bytes

\* ------------------------------------------------------------ archive
\* One tar member: a regular file's arcname and bytes.
Member(name, d) == [k |-> "member", name |-> name, data |-> d]
Junk == [k |-> "junk"]

\* The orders in which rglob can yield the files of a tree.
TarOrders(t) ==
    {s \in [1..Cardinality(DOMAIN t) -> DOMAIN t] :
        \A i, j \in DOMAIN s : i # j => s[i] # s[j]}

\* A packer that names each member by the file's own name, not by its path
\* relative to the source directory.
TarBytesFlat(t, order) ==
    [i \in 1..Len(order) |-> Member(<<Last(order[i])>>, t[order[i]])]

\* tar.add(p, arcname=p.relative_to(source_dir)) for each file, buf.getvalue()
TarBytes(t, order) == [i \in 1..Len(order) |-> Member(order[i], t[order[i]])]

Algorithm(zstdlib) == IF zstdlib THEN "zstd" ELSE "zlib"
Frame(zstdlib, n) == [k |-> "frame", alg |-> Algorithm(zstdlib), n |-> n]

\* _compress_bytes: a frame unit (magic, content size) and the content.
Compress(zstdlib, bytes) == <<Frame(zstdlib, Len(bytes))>> \o bytes

\* _decompress_bytes succeeds on a well-formed frame of this library only.
DecompressOk(zstdlib, z) ==
    /\ Len(z) >= 1
    /\ z[1] = Frame(zstdlib, Len(z) - 1)
    /\ \A i \in 2..Len(z) : z[i].k = "member"
Decompress(z) == Tail(z)

\* ---------------------------------------------------- patch container
\* [4 bytes header_length][header JSON][compressed payload].  The JSON header
\* is one unit of the body, so a file written by create_patch_from_dir has
\* hlen = 1.
Header(t, meta, sigtext) ==
    [k |-> "hdr", version |-> FormatVersion, created |-> t, metadata |-> meta,
     signature |-> sigtext]

PatchFile(header, compressed) == [hlen |-> 1, body |-> <<header>> \o compressed]

\* f.read(header_len) right after the length field
HeaderBytes(f) == SubSeq(f.body, 1, Min(f.hlen, Len(f.body)))
\* json.loads succeeds on exactly one JSON document
JsonLoadsOk(raw) == Len(raw) = 1 /\ raw[1].k = "hdr"
\* verify_patch: f.read() after the header was read
PayloadAfterHeader(f) == SubSeq(f.body, Min(f.hlen, Len(f.body)) + 1, Len(f.body))
\* apply_patch: f.seek(4 + header_len); f.read()
PayloadAtSeek(f) == SubSeq(f.body, f.hlen + 1, Len(f.body))

\* A verify_patch that accepts headers of its own format version only.
VerifyOutcomeVersioned(crypto, files, p, pub) ==
    IF p \notin DOMAIN files THEN "FileNotFoundError"
    ELSE LET f == files[p]
             raw == HeaderBytes(f)
         IN IF ~JsonLoadsOk(raw) THEN "JSONDecodeError"
            ELSE LET header == raw[1]
                     digest == Sha256(PayloadAfterHeader(f))
                 IN IF ~FromHexOk(header.signature) THEN "ValueError"
                    ELSE IF /\ header.version = FormatVersion
                            /\ VerifyAccepts(crypto, pub, FromHex(header.signature), digest)
                         THEN "True"
                         ELSE "False"

\* verify_patch's result for the file at path p under public key pub: "True",
\* "False", or the exception that escapes.
VerifyOutcome(crypto, files, p, pub) ==
    IF p \notin DOMAIN files THEN "FileNotFoundError"
    ELSE LET f == files[p]
             raw == HeaderBytes(f)
         IN IF ~JsonLoadsOk(raw) THEN "JSONDecodeError"
            ELSE LET header == raw[1]
                     digest == Sha256(PayloadAfterHeader(f))
                 IN IF ~FromHexOk(header.signature) THEN "ValueError"
                    ELSE IF VerifyAccepts(crypto, pub, FromHex(header.signature), digest)
                         THEN "True"
                         ELSE "False"

\* ---------------------------------------------------- safe extraction
\* member_path = (dest / member.name).resolve();
\* str(member_path).startswith(str(base))
PathIsSafe(dest, name) ==
    StartsWith(Str(Resolve(dest \o name)), Str(Resolve(dest)))

AllSafe(dest, members) == \A i \in DOMAIN members : PathIsSafe(dest, members[i].name)

\* tar.extract(member, path=dest) is called without a filter, so the
\* interpreter's default applies: none up to Python 3.13, 'data' from 3.14,
\* which refuses a member whose real path is not dest or below it.
FilterRejects(filtered, dest, name) ==
    /\ filtered
    /\ Resolve(dest \o name) # Resolve(dest)
    /\ ~IsUnder(Resolve(dest \o name), Resolve(dest))

\* tarfile writes a member with open(targetpath, "wb"), which fails on an
\* existing file the process may not write.
CannotWrite(fsys, q) == q \in DOMAIN fsys /\ IsReadOnly(fsys[q])

\* tarfile then sets the member's mode on the file; the 'data' filter adds
\* the owner's read and write permission to it.
Extracted(filtered, v) == IF filtered THEN Content(v) ELSE v

\* for member in tar.getmembers(): tar.extract(member, path=dest)
RECURSIVE ExtractAll(_, _, _, _)
ExtractAll(filtered, fsys, dest, members) ==
    IF members = <<>> THEN [res |-> "None", fs |-> fsys]
    ELSE IF FilterRejects(filtered, dest, Head(members).name)
         THEN [res |-> "OutsideDestinationError", fs |-> fsys]
         ELSE IF CannotWrite(fsys, Resolve(dest \o Head(members).name))
              THEN [res |-> "PermissionError", fs |-> fsys]
              ELSE ExtractAll(filtered,
                              WriteFile(fsys, Resolve(dest \o Head(members).name),
                                        Extracted(filtered, Head(members).data)),
                              dest, Tail(members))

\* An extraction that checks each member just before writing it.
RECURSIVE ExtractChecking(_, _, _, _)
ExtractChecking(filtered, fsys, dest, members) ==
    IF members = <<>> THEN [res |-> "None", fs |-> fsys]
    ELSE IF ~PathIsSafe(dest, Head(members).name)
         THEN [res |-> "UnsafePath", fs |-> fsys]
         ELSE IF FilterRejects(filtered, dest, Head(members).name)
              THEN [res |-> "OutsideDestinationError", fs |-> fsys]
              ELSE IF CannotWrite(fsys, Resolve(dest \o Head(members).name))
                   THEN [res |-> "PermissionError", fs |-> fsys]
                   ELSE ExtractChecking(filtered,
                                        WriteFile(fsys, Resolve(dest \o Head(members).name),
                                                  Extracted(filtered, Head(members).data)),
                                        dest, Tail(members))

\* An extraction that empties the destination before it writes.
ExtractReplacing(filtered, fsys, dest, members) ==
    IF AllSafe(dest, members)
    THEN ExtractAll(filtered, [q \in {x \in DOMAIN fsys : ~IsUnder(x, dest)} |-> fsys[q]],
                    dest, members)
    ELSE [res |-> "UnsafePath", fs |-> fsys]

\* _safe_extractall: validate every member, then write every member.
SafeExtractAll(filtered, fsys, dest, members) ==
    IF AllSafe(dest, members)
    THEN ExtractAll(filtered, fsys, dest, members)
    ELSE [res |-> "UnsafePath", fs |-> fsys]

\* An apply_patch that extracts into one directory, whatever its target_dir.
ApplyOutcomeShared(zstdlib, filtered, files, p, fsys, dest) ==
    IF p \notin DOMAIN files THEN [res |-> "FileNotFoundError", fs |-> fsys]
    ELSE LET compressed == PayloadAtSeek(files[p])
         IN IF ~DecompressOk(zstdlib, compressed)
            THEN [res |-> "DecompressError", fs |-> fsys]
            ELSE SafeExtractAll(filtered, fsys, TargetDir, Decompress(compressed))

\* apply_patch after its sleep: read the payload again, decompress, extract.
ApplyOutcome(zstdlib, filtered, files, p, fsys, dest) ==
    IF p \notin DOMAIN files THEN [res |-> "FileNotFoundError", fs |-> fsys]
    ELSE LET compressed == PayloadAtSeek(files[p])
         IN IF ~DecompressOk(zstdlib, compressed)
            THEN [res |-> "DecompressError", fs |-> fsys]
            ELSE SafeExtractAll(filtered, fsys, dest, Decompress(compressed))

\* -------------------------------------------------------------- state
Components == {"X", "Y"}
Metas == {"{}"}
Times == {"t0"}          \* the readings utcnow() can give
NoPath == "-"
NoDir == <<>>
NoComp == "-"

\* The directory holding a component's files: the orchestrator itself keeps
\* no such relation, component names are plain strings.
ComponentDir(c) == IF c = "X" THEN TargetDir ELSE SiblingDir

VARIABLES
    hasCrypto,      \* _has_crypto: the cryptography library was importable
    useZstd,        \* _use_zstd: the zstandard library was importable
    dataFilter,     \* tarfile's default extraction filter is 'data' (Python 3.14 on)
    signing_keys,   \* config.signing_keys
    backups,        \* self._backups
    fs,             \* the data files on disk
    patches,        \* the patch files on disk, by path
    tasks,          \* the coroutines suspended in asyncio.sleep, in start order
    ret,            \* the call or step that ran last, and how it ended
    origin,         \* history: how each patch file came to be
    snapshot,       \* history: a component's files when its backup was recorded
    applied,        \* history: the <<patch, directory>> pairs apply_patch returned from
    clock,          \* the event loop's clock (loop.time()), in ms
    envOps          \* edits the environment has made

vars == <<hasCrypto, useZstd, dataFilter, signing_keys, backups, fs, patches, tasks, ret,
          origin, snapshot, applied, clock, envOps>>

\* pre: the files of the directory the step is about, as the step found them.
Ret(op, step, res, p, dir, comp, key, pre) ==
    [op |-> op, step |-> step, res |-> res, p |-> p, dir |-> dir, comp |-> comp,
     key |-> key, pre |-> pre]

\* A suspended coroutine.  called: the clock when it went to sleep; verified,
\* payload: history, what its verify_patch returned and the bytes it hashed.
Task(op, delay, p, dir, comp, verified, payload, called) ==
    [op |-> op, delay |-> delay, p |-> p, dir |-> dir, comp |-> comp,
     verified |-> verified, payload |-> payload, called |-> called]

Without(s, i) == SubSeq(s, 1, i - 1) \o SubSeq(s, i + 1, Len(s))

\* The loop wakes sleepers in the order of their deadlines: a coroutine is
\* never woken before one that started earlier with a delay not longer.
CanResume(i) == \A j \in 1..(i - 1) : tasks[j].delay > tasks[i].delay

Made(t, by) == [made |-> TRUE, tree |-> t, by |-> by, edits |-> "none"]
Foreign(by) == [made |-> FALSE, tree |-> EmptyTree, by |-> by, edits |-> "none"]

\* What the interpreter provides when the module is loaded, as <<cryptography
\* importable, zstandard importable, tarfile filters by default>>: the full
\* installation, and the one with neither library (the two the repository's
\* tests load the module in); then every combination.
Installed == <<TRUE, TRUE, FALSE>>
Bare == <<FALSE, FALSE, FALSE>>
AllLibraries == BOOLEAN \X BOOLEAN \X BOOLEAN

Boot(libraries, keys, sourceTrees, targetTrees) ==
    /\ \E l \in libraries : hasCrypto = l[1] /\ useZstd = l[2] /\ dataFilter = l[3]
    /\ signing_keys \in keys
    /\ backups = [c \in {} |-> ""]
    /\ \E st \in sourceTrees, tt \in targetTrees :
          fs = Planted(st, SourceDir) @@ Planted(tt, TargetDir)
    /\ patches = [p \in {} |-> 0]
    /\ tasks = <<>>
    /\ ret = Ret("init", "call", "None", NoPath, NoDir, NoComp, NoKey, EmptyTree)
    /\ origin = [p \in {} |-> 0]
    /\ snapshot = [c \in {} |-> 0]
    /\ applied = {}
    /\ clock = 0
    /\ envOps = 0

\* ------------------------------------------------------ key management
EnsureKeys ==
    /\ \E sk \in ensure_keys(signing_keys) : signing_keys' = sk
    /\ ret' = Ret("ensure_keys", "call", "None", NoPath, NoDir, NoComp, NoKey, EmptyTree)
    /\ UNCHANGED <<hasCrypto, useZstd, dataFilter, clock, applied, backups, fs, patches, tasks, origin,
                   snapshot, envOps>>

\* ------------------------------------------------------- create_patch
\* The file create_patch_from_dir writes for tree t packed in this order,
\* signed by priv at clock reading now.
CreatedFile(t, order, now, meta, priv) ==
    LET compressed == Compress(useZstd, TarBytes(t, order))
        digest == Sha256(compressed)
    IN PatchFile(Header(now, meta, ToHex(Sign(hasCrypto, priv, digest))), compressed)

\* private_key or self.config.signing_keys["priv"]
SigningKey(keyarg, sk) == IF keyarg # NoKey THEN keyarg ELSE sk.priv

CreatePatch(src, p, meta, keyarg) ==
    /\ \E sk \in ensure_keys(signing_keys), now \in Times,
          order \in TarOrders(TreeAt(fs, src)) :
          LET t == TreeAt(fs, src)
              priv == SigningKey(keyarg, sk)
          IN /\ signing_keys' = sk
             /\ patches' = (p :> CreatedFile(t, order, now, meta, priv)) @@ patches
             /\ origin' = (p :> Made(t, priv)) @@ origin
    /\ ret' = Ret("create_patch_from_dir", "call", "None", p, src, NoComp, keyarg, EmptyTree)
    /\ UNCHANGED <<hasCrypto, useZstd, dataFilter, clock, applied, backups, fs, tasks, snapshot, envOps>>

\* ------------------------------------------------------- verify_patch
\* public_key or self.config.signing_keys["pub"]
VerifyingKey(keyarg, sk) == IF keyarg # NoKey THEN keyarg ELSE sk.pub

VerifyPatch(p, keyarg) ==
    /\ \E sk \in ensure_keys(signing_keys) :
          /\ signing_keys' = sk
          /\ ret' = Ret("verify_patch", "call",
                        VerifyOutcome(hasCrypto, patches, p, VerifyingKey(keyarg, sk)),
                        p, NoDir, NoComp, keyarg, EmptyTree)
    /\ UNCHANGED <<hasCrypto, useZstd, dataFilter, clock, applied, backups, fs, patches, tasks, origin,
                   snapshot, envOps>>

\* -------------------------------------------------------- apply_patch
\* A gate that stops on an exception only.
ApplyProceedsUnlessRaised(outcome) == outcome \in {"True", "False"}

\* if not self.verify_patch(patch_path): raise ValueError(...)
ApplyProceeds(outcome) == outcome = "True"

\* How the call ends when it does not reach its sleep.
ApplyRaises(outcome) == IF outcome = "False" THEN "SignatureInvalid" ELSE outcome

\* apply_patch up to its await.  noted: whether the history of the task keeps
\* the payload bytes that verify_patch hashed.
ApplyBegin(p, dir, noted) ==
    /\ Len(tasks) < MaxTasks
    /\ \E sk \in ensure_keys(signing_keys) :
          LET outcome == VerifyOutcome(hasCrypto, patches, p, VerifyingKey(NoKey, sk))
          IN /\ signing_keys' = sk
             /\ IF ApplyProceeds(outcome)
                THEN /\ tasks' = Append(tasks, Task("apply_patch", ApplyDelay, p, dir,
                                                    NoComp, outcome,
                                                    IF noted
                                                    THEN PayloadAfterHeader(patches[p])
                                                    ELSE <<>>,
                                                    clock))
                     /\ ret' = Ret("apply_patch", "call", "suspended", p, dir, NoComp,
                                   NoKey, TreeAt(fs, dir))
                ELSE /\ tasks' = tasks
                     /\ ret' = Ret("apply_patch", "call", ApplyRaises(outcome), p, dir,
                                   NoComp, NoKey, TreeAt(fs, dir))
    /\ UNCHANGED <<hasCrypto, useZstd, dataFilter, clock, applied, backups, fs, patches, origin,
                   snapshot, envOps>>

ApplyStart(p, dir) == ApplyBegin(p, dir, FALSE)
ApplyStartNoted(p, dir) == ApplyBegin(p, dir, TRUE)

ApplyResume(i) ==
    /\ i \in DOMAIN tasks
    /\ tasks[i].op = "apply_patch"
    /\ CanResume(i)
    /\ LET t == tasks[i]
           out == ApplyOutcome(useZstd, dataFilter, patches, t.p, fs, t.dir)
       IN /\ fs' = out.fs
          /\ ret' = Ret("apply_patch", "resume", out.res, t.p, t.dir, NoComp, NoKey, TreeAt(fs, t.dir))
          /\ applied' = IF out.res = "None" THEN applied \cup {<<t.p, t.dir>>} ELSE applied
    /\ tasks' = Without(tasks, i)
    /\ UNCHANGED <<hasCrypto, useZstd, dataFilter, clock, signing_keys, backups, patches,
                   origin, snapshot, envOps>>

\* A cancellation midway through the extraction: one member is written.
CancelOutcomePartial(fsys, dest) == WriteFile(fsys, dest \o FileA, MaxData)

\* The files after CancelledError is raised at await asyncio.sleep(...), the
\* one await of apply_patch: no statement after it has run.
CancelOutcome(fsys, dest) == fsys

\* task.cancel() or the timeout of asyncio.wait_for: a suspended apply_patch
\* ends with CancelledError, at whatever moment of its sleep.
ApplyCancel(i) ==
    /\ i \in DOMAIN tasks
    /\ tasks[i].op = "apply_patch"
    /\ fs' = CancelOutcome(fs, tasks[i].dir)
    /\ ret' = Ret("apply_patch", "cancel", "CancelledError", tasks[i].p, tasks[i].dir,
                  NoComp, NoKey, TreeAt(fs, tasks[i].dir))
    /\ tasks' = Without(tasks, i)
    /\ UNCHANGED <<hasCrypto, useZstd, dataFilter, clock, applied, signing_keys, backups, patches,
                   origin, snapshot, envOps>>

\* ------------------------------------------------- backup and rollback
BackupStart(c) ==
    /\ Len(tasks) < MaxTasks
    /\ tasks' = Append(tasks, Task("create_test_backup", BackupDelay, NoPath, NoDir, c,
                                 "-", <<>>, clock))
    /\ ret' = Ret("create_test_backup", "call", "suspended", NoPath, NoDir, c, NoKey, EmptyTree)
    /\ UNCHANGED <<hasCrypto, useZstd, dataFilter, clock, applied, signing_keys, backups, fs, patches, origin,
                   snapshot, envOps>>

\* A store that drops the record it finds instead of replacing it.
StoreBackupDropping(b, c) ==
    IF c \in DOMAIN b THEN [x \in DOMAIN b \ {c} |-> b[x]]
    ELSE (c :> "dummy-backup-data") @@ b

\* A store that keeps the latest backup only.
StoreBackupAlone(b, c) == (c :> "dummy-backup-data")

\* A store that files every backup under one name.
StoreBackupUnnamed(b, c) == (NoComp :> "dummy-backup-data") @@ b

\* self._backups[component_name] = "dummy-backup-data"
StoreBackup(b, c) == (c :> "dummy-backup-data") @@ b

BackupResume(i) ==
    /\ i \in DOMAIN tasks
    /\ tasks[i].op = "create_test_backup"
    /\ CanResume(i)
    /\ backups' = StoreBackup(backups, tasks[i].comp)
    /\ snapshot' = (tasks[i].comp :> TreeAt(fs, ComponentDir(tasks[i].comp))) @@ snapshot
    /\ ret' = Ret("create_test_backup", "resume", "None", NoPath, NoDir, tasks[i].comp,
                  NoKey, EmptyTree)
    /\ tasks' = Without(tasks, i)
    /\ UNCHANGED <<hasCrypto, useZstd, dataFilter, clock, applied, signing_keys, fs, patches, origin, envOps>>

RollbackStart(c) ==
    /\ Len(tasks) < MaxTasks
    /\ tasks' = Append(tasks, Task("rollback_component", RollbackDelay, NoPath, NoDir, c,
                                 "-", <<>>, clock))
    /\ ret' = Ret("rollback_component", "call", "suspended", NoPath, NoDir, c, NoKey, EmptyTree)
    /\ UNCHANGED <<hasCrypto, useZstd, dataFilter, clock, applied, signing_keys, backups, fs, patches, origin,
                   snapshot, envOps>>

\* component_name in self._backups
HasBackup(b, c) == c \in DOMAIN b

\* A rollback that finds no backup, whatever the store holds.
RollbackRefusing(b, c, fsys) == [res |-> "NoBackupFound", fs |-> fsys]

\* A rollback that does not look for the backup.
RollbackUnchecked(b, c, fsys) == [res |-> "None", fs |-> fsys]

\* rollback_component after its sleep: raise, or return having restored nothing.
RollbackOutcome(b, c, fsys) ==
    IF ~HasBackup(b, c) THEN [res |-> "NoBackupFound", fs |-> fsys]
    ELSE [res |-> "None", fs |-> fsys]

RollbackResume(i) ==
    /\ i \in DOMAIN tasks
    /\ tasks[i].op = "rollback_component"
    /\ CanResume(i)
    /\ LET out == RollbackOutcome(backups, tasks[i].comp, fs)
       IN /\ fs' = out.fs
          /\ ret' = Ret("rollback_component", "resume", out.res, NoPath, NoDir,
                        tasks[i].comp, NoKey, TreeAt(fs, ComponentDir(tasks[i].comp)))
    /\ tasks' = Without(tasks, i)
    /\ UNCHANGED <<hasCrypto, useZstd, dataFilter, clock, applied, signing_keys, backups, patches, origin,
                   snapshot, envOps>>

\* ------------------------------------------------------------- timers
\* A timer that fires long after the delay asked for.
DeadlineLate(t) == t.called + t.delay + RollbackBudget

\* asyncio.sleep(delay): the clock reading at which the coroutine is due.
Deadline(t) == t.called + t.delay

Due(i) == i \in DOMAIN tasks /\ clock >= Deadline(tasks[i])

EarliestDeadline ==
    CHOOSE d \in {Deadline(tasks[i]) : i \in DOMAIN tasks} :
        \A i \in DOMAIN tasks : d <= Deadline(tasks[i])

\* Normal conditions: the loop is idle while every coroutine sleeps, so time
\* passes up to the next deadline and the coroutine due then runs at once;
\* the synchronous stretches of the operations take no time on this clock.
TimePasses ==
    /\ tasks # <<>>
    /\ clock < EarliestDeadline
    /\ EarliestDeadline <= MaxClock
    /\ clock' = EarliestDeadline
    /\ UNCHANGED <<hasCrypto, useZstd, dataFilter, applied, signing_keys, backups, fs, patches,
                   tasks, ret, origin, snapshot, envOps>>

WakeApply(i) == Due(i) /\ ApplyResume(i)
WakeBackup(i) == Due(i) /\ BackupResume(i)
WakeRollback(i) == Due(i) /\ RollbackResume(i)

\* -------------------------------------------------------- environment
\* A file of a component is overwritten or deleted by something other than
\* the orchestrator.
EnvWrite(dir, r, d) ==
    /\ envOps < MaxEnv
    /\ envOps' = envOps + 1
    /\ fs' = WriteFile(fs, dir \o r, d)
    /\ fs' # fs
    /\ ret' = Ret("env_write", "call", "None", NoPath, dir, NoComp, NoKey, EmptyTree)
    /\ UNCHANGED <<hasCrypto, useZstd, dataFilter, clock, applied, signing_keys, backups, patches, tasks, origin,
                   snapshot>>

EnvDelete(dir, r) ==
    /\ envOps < MaxEnv
    /\ envOps' = envOps + 1
    /\ dir \o r \in DOMAIN fs
    /\ fs' = RemoveFile(fs, dir \o r)
    /\ ret' = Ret("env_delete", "call", "None", NoPath, dir, NoComp, NoKey, EmptyTree)
    /\ UNCHANGED <<hasCrypto, useZstd, dataFilter, clock, applied, signing_keys, backups, patches, tasks, origin,
                   snapshot>>

\* The archives a packer other than create_patch_from_dir can build: any
\* member names, among them names that leave the destination.
ForeignNames ==
    {<<EscapeFar>>, <<FileA, EscapeFar>>, <<EscapeFar, FileA>>,
     <<EscapeSibling>>, <<FileA, EscapeSibling>>, <<FileSubB, FileA>>}
ForeignArchives == {[i \in DOMAIN ns |-> Member(ns[i], 1)] : ns \in ForeignNames}

\* A patch file in the container format is put at p by a holder of key priv.
EnvPlacePatch(p, members, priv) ==
    /\ envOps < MaxEnv
    /\ envOps' = envOps + 1
    /\ LET compressed == Compress(useZstd, members)
           sig == Sign(hasCrypto, priv, Sha256(compressed))
       IN patches' = (p :> PatchFile(Header("t0", "{}", ToHex(sig)), compressed)) @@ patches
    /\ origin' = (p :> Foreign(priv)) @@ origin
    /\ ret' = Ret("env_place", "call", "None", p, NoDir, NoComp, priv, EmptyTree)
    /\ UNCHANGED <<hasCrypto, useZstd, dataFilter, clock, applied, signing_keys, backups, fs, tasks, snapshot>>

Edited(o, what) == [o EXCEPT !.edits = IF o.edits = "none" THEN what ELSE "many"]

\* The values one changed byte can turn payload unit u into: bytes the
\* decompressor rejects, or (zstd frames carry no checksum) other content.
Flipped(u) ==
    {Junk} \cup (IF useZstd /\ u.k = "member"
                 THEN {Member(u.name, d) : d \in Data \ {u.data}}
                 ELSE {})

\* One byte of the payload region of the file at p, untouched since it was
\* written, is changed.
EnvTamperPayload(p, i) ==
    /\ envOps < MaxEnv
    /\ envOps' = envOps + 1
    /\ p \in DOMAIN patches
    /\ origin[p].edits = "none"
    /\ i \in (patches[p].hlen + 1)..Len(patches[p].body)
    /\ \E u \in Flipped(patches[p].body[i]) :
          patches' = [patches EXCEPT ![p].body[i] = u]
    /\ origin' = [origin EXCEPT ![p] = Edited(@, "payload")]
    /\ ret' = Ret("env_tamper_payload", "call", "None", p, NoDir, NoComp, NoKey, EmptyTree)
    /\ UNCHANGED <<hasCrypto, useZstd, dataFilter, clock, applied, signing_keys, backups, fs, tasks, snapshot>>

\* One character of the signature field of the file at p, untouched since it
\* was written, is changed: to another hex digit (other signature bytes) or to
\* a character that is no hex digit.
EnvTamperSignature(p, hexdigit) ==
    /\ envOps < MaxEnv
    /\ envOps' = envOps + 1
    /\ p \in DOMAIN patches
    /\ origin[p].edits = "none"
    /\ JsonLoadsOk(HeaderBytes(patches[p]))
    /\ patches' = [patches EXCEPT ![p].body[1].signature =
                      IF hexdigit THEN [@ EXCEPT !.bytes.flip = 1]
                      ELSE [@ EXCEPT !.enc = "text"]]
    /\ origin' = [origin EXCEPT ![p] = Edited(@, "signature")]
    /\ ret' = Ret("env_tamper_signature", "call", "None", p, NoDir, NoComp, NoKey, EmptyTree)
    /\ UNCHANGED <<hasCrypto, useZstd, dataFilter, clock, applied, signing_keys, backups, fs, tasks, snapshot>>

\* A file that ends within its length field or right after it: whatever
\* length n f.read(4) decodes to, nothing follows.
ShortFile(n) == [hlen |-> n, body |-> <<>>]

\* File f with a length field that declares more header bytes than the file
\* has left after the field.
Overstated(f) == [f EXCEPT !.hlen = Len(f.body) + 1]

\* Files whose length field is wrong, made by a holder of key priv: short
\* ones, and overstated ones with the header alone or with a payload.
MalformedKinds == {"short", "short, length set", "header alone", "header and payload"}

MalformedFile(kind, priv) ==
    LET signed(z) == PatchFile(Header("t0", "{}", ToHex(Sign(hasCrypto, priv, Sha256(z)))), z)
    IN CASE kind = "short" -> ShortFile(0)
         [] kind = "short, length set" -> ShortFile(1)
         [] kind = "header alone" -> Overstated(signed(<<>>))
         [] kind = "header and payload" ->
                Overstated(signed(Compress(useZstd, <<Member(FileA, 1)>>)))

EnvPlaceMalformed(p, kind, priv) ==
    /\ envOps < MaxEnv
    /\ envOps' = envOps + 1
    /\ patches' = (p :> MalformedFile(kind, priv)) @@ patches
    /\ origin' = (p :> Foreign(priv)) @@ origin
    /\ ret' = Ret("env_place", "call", "None", p, NoDir, NoComp, priv, EmptyTree)
    /\ UNCHANGED <<hasCrypto, useZstd, dataFilter, clock, applied, signing_keys, backups, fs, tasks, snapshot>>

\* The versions a header can carry other than the one the orchestrator writes.
OtherVersions == {FormatVersion - 1, FormatVersion + 1}

\* The version field of the header of the file at p, untouched since it was
\* written, is changed.
EnvSetVersion(p, v) ==
    /\ envOps < MaxEnv
    /\ envOps' = envOps + 1
    /\ p \in DOMAIN patches
    /\ origin[p].edits = "none"
    /\ JsonLoadsOk(HeaderBytes(patches[p]))
    /\ patches' = [patches EXCEPT ![p].body[1].version = v]
    /\ origin' = [origin EXCEPT ![p] = Edited(@, "header")]
    /\ ret' = Ret("env_set_version", "call", "None", p, NoDir, NoComp, NoKey, EmptyTree)
    /\ UNCHANGED <<hasCrypto, useZstd, dataFilter, clock, applied, signing_keys, backups, fs, tasks, snapshot>>

\* Values the created and metadata fields of a header can carry besides
\* those the model's create_patch_from_dir calls write.
OtherTimes == {"t1"}
OtherMetas == {"{\"k\":\"v\"}"}

\* The version, created and metadata fields of the header of the file at p
\* are rewritten, one or several of them; the signature field and the payload
\* stay as they are.
EnvEditHeader(p, v, t, m) ==
    /\ envOps < MaxEnv
    /\ envOps' = envOps + 1
    /\ p \in DOMAIN patches
    /\ JsonLoadsOk(HeaderBytes(patches[p]))
    /\ patches' = [patches EXCEPT ![p].body[1] =
                      [@ EXCEPT !.version = v, !.created = t, !.metadata = m]]
    /\ patches' # patches
    /\ origin' = [origin EXCEPT ![p] = Edited(@, "header")]
    /\ ret' = Ret("env_edit_header", "call", "None", p, NoDir, NoComp, NoKey, EmptyTree)
    /\ UNCHANGED <<hasCrypto, useZstd, dataFilter, clock, applied, signing_keys, backups, fs,
                   tasks, snapshot>>

\* ------------------------------------------------------ specifications
OldTarget == [r \in {FileA} |-> MaxData]
SingleTree == [r \in {FileA} |-> 1]
FullTree == [r \in RelPaths |-> IF r = FileA THEN 1 ELSE MaxData]

\* The patch lifecycle: packing, verification and application of the patch
\* at one path into one target, while the file is tampered with.
Init == Boot({Installed, Bare}, {NoKeys}, {EmptyTree, FullTree}, {EmptyTree, OldTarget})

Next ==
    \/ EnsureKeys
    \/ \E k \in {NoKey} \cup PrivKeys : CreatePatch(SourceDir, "p1", "{}", k)
    \/ \E k \in {NoKey} \cup PubKeys : VerifyPatch("p1", k)
    \/ ApplyStart("p1", TargetDir)
    \/ \E i \in 1..MaxTasks : ApplyResume(i)
    \/ \E i \in 2..(Cardinality(RelPaths) + 2) : EnvTamperPayload("p1", i)
    \/ \E h \in BOOLEAN : EnvTamperSignature("p1", h)

Spec == Init /\ [][Next]_vars

\* Extraction of archives packed outside the orchestrator.
InitExtract == Boot(AllLibraries, {NoKeys}, {EmptyTree}, {EmptyTree, OldTarget})

NextExtract ==
    \/ EnsureKeys
    \/ \E ms \in ForeignArchives, k \in PrivKeys : EnvPlacePatch("p1", ms, k)
    \/ \E k \in {NoKey} \cup PubKeys : VerifyPatch("p1", k)
    \/ ApplyStart("p1", TargetDir)
    \/ \E i \in 1..MaxTasks : ApplyResume(i)

SpecExtract == InitExtract /\ [][NextExtract]_vars

\* Backup and rollback of components, next to patches applied to them.
InitBackup == Boot({Installed}, {CHOOSE kp \in generate_keypair : TRUE}, {SingleTree}, {OldTarget})

NextBackup ==
    \/ CreatePatch(SourceDir, "p1", "{}", NoKey)
    \/ ApplyStart("p1", TargetDir)
    \/ \E i \in 1..MaxTasks : ApplyResume(i)
    \/ \E c \in Components : BackupStart(c)
    \/ \E i \in 1..MaxTasks : BackupResume(i)
    \/ \E c \in Components : RollbackStart(c)
    \/ \E i \in 1..MaxTasks : RollbackResume(i)
    \/ \E r \in RelPaths, x \in Data : EnvWrite(TargetDir, r, x)
    \/ \E r \in RelPaths : EnvDelete(TargetDir, r)

SpecBackup == InitBackup /\ [][NextBackup]_vars

\* Several patches applied at once, as test_patch_orchestrator_concurrent_apply
\* does: a source directory per patch, the patches created, then one
\* apply_patch per patch handed to asyncio.gather.  The second patch goes to
\* a directory beside the first one's target, or to one inside it.
SecondSource == << <<"t">> >>          \* /t
NestedDir == << <<"d">>, <<"u">> >>    \* /d/u
FileB == << <<"b">> >>                 \* b
OtherTree == [r \in {FileB} |-> 1]

InitialFiles == Planted(FullTree, SourceDir) @@ Planted(OtherTree, SecondSource)

InitConcurrent ==
    /\ \E l \in {Installed, Bare} : hasCrypto = l[1] /\ useZstd = l[2] /\ dataFilter = l[3]
    /\ signing_keys = NoKeys
    /\ backups = [c \in {} |-> ""]
    /\ fs = InitialFiles
    /\ patches = [p \in {} |-> 0]
    /\ tasks = <<>>
    /\ ret = Ret("init", "call", "None", NoPath, NoDir, NoComp, NoKey, EmptyTree)
    /\ origin = [p \in {} |-> 0]
    /\ snapshot = [c \in {} |-> 0]
    /\ applied = {}
    /\ clock = 0
    /\ envOps = 0

\* orchestrator.create_patch_from_dir(src, patch_path), once per patch
CreateOnce(src, p) ==
    /\ p \notin DOMAIN patches
    /\ CreatePatch(src, p, "{}", NoKey)

\* asyncio.gather(*tasks): each apply_patch is started once
GatherApply(p, dir) ==
    /\ p \in DOMAIN patches
    /\ \A a \in applied : a[1] # p
    /\ \A i \in DOMAIN tasks : tasks[i].p # p
    /\ ApplyStart(p, dir)

NextConcurrent ==
    \/ CreateOnce(SourceDir, "p1")
    \/ CreateOnce(SecondSource, "p2")
    \/ GatherApply("p1", TargetDir)
    \/ \E dir \in {SiblingDir, NestedDir} : GatherApply("p2", dir)
    \/ \E i \in 1..MaxTasks : ApplyResume(i)

\* The event loop resumes a coroutine whose sleep has run out.
SpecConcurrent ==
    /\ InitConcurrent
    /\ [][NextConcurrent]_vars
    /\ WF_vars(\E i \in 1..MaxTasks : ApplyResume(i))

\* Every operation of the orchestrator, in any order and interleaving, on a
\* configuration that starts without keys or with a private key only.
PrivOnly == [priv |-> CHOOSE k \in PrivKeys : TRUE, pub |-> NoKey]

InitKeys == Boot({Installed}, {NoKeys, PrivOnly}, {SingleTree}, {EmptyTree})

NextKeys ==
    \/ EnsureKeys
    \/ CreatePatch(SourceDir, "p1", "{}", NoKey)
    \/ VerifyPatch("p1", NoKey)
    \/ ApplyStart("p1", TargetDir)
    \/ \E i \in 1..MaxTasks : ApplyResume(i)
    \/ BackupStart("X")
    \/ \E i \in 1..MaxTasks : BackupResume(i)
    \/ RollbackStart("X")
    \/ \E i \in 1..MaxTasks : RollbackResume(i)

SpecKeys == InitKeys /\ [][NextKeys]_vars

\* Input the interface is to refuse: files with a wrong length field, headers
\* of another format version, a source directory that does not exist.
MissingDir == << <<"m">> >>           \* /m: no such directory, so no file below it

InitRefuse == Boot({Installed, Bare}, {NoKeys}, {SingleTree}, {EmptyTree, OldTarget})

NextRefuse ==
    \/ \E src \in {SourceDir, MissingDir} : CreatePatch(src, "p1", "{}", NoKey)
    \/ \E kind \in MalformedKinds, k \in PrivKeys : EnvPlaceMalformed("p1", kind, k)
    \/ \E v \in OtherVersions : EnvSetVersion("p1", v)
    \/ VerifyPatch("p1", NoKey)
    \/ ApplyStart("p1", TargetDir)
    \/ \E i \in 1..MaxTasks : ApplyResume(i)

SpecRefuse == InitRefuse /\ [][NextRefuse]_vars

\* One patch applied more than once into one target, by an unprivileged or a
\* privileged process: the source's file is read-only to the process or not.
ReadOnlyTree == [r \in {FileA} |-> ReadOnly(1)]
WithFilter == <<TRUE, TRUE, TRUE>>

InitReapply ==
    Boot({Installed, WithFilter, Bare}, {NoKeys}, {SingleTree, ReadOnlyTree}, {EmptyTree})

NextReapply ==
    \/ CreateOnce(SourceDir, "p1")
    \/ VerifyPatch("p1", NoKey)
    \/ ApplyStart("p1", TargetDir)
    \/ \E i \in 1..MaxTasks : ApplyResume(i)

SpecReapply == InitReapply /\ [][NextReapply]_vars

\* A patch path written more than once, from either source directory and
\* with the configured key or a private_key argument, while every other
\* operation of the orchestrator runs or is suspended.
InitRewrite == InitConcurrent

NextRewrite ==
    \/ \E src \in {SourceDir, SecondSource}, k \in {NoKey} \cup PrivKeys :
          CreatePatch(src, "p1", "{}", k)
    \/ VerifyPatch("p1", NoKey)
    \/ ApplyStartNoted("p1", TargetDir)
    \/ \E i \in 1..MaxTasks : ApplyResume(i)
    \/ BackupStart("X")
    \/ \E i \in 1..MaxTasks : BackupResume(i)
    \/ RollbackStart("X")
    \/ \E i \in 1..MaxTasks : RollbackResume(i)

SpecRewrite == InitRewrite /\ [][NextRewrite]_vars

\* apply_patch calls cancelled while they sleep, next to others that run to
\* their end.
InitCancel == Boot({Installed, Bare}, {NoKeys}, {FullTree}, {EmptyTree, OldTarget})

NextCancel ==
    \/ CreateOnce(SourceDir, "p1")
    \/ ApplyStart("p1", TargetDir)
    \/ \E i \in 1..MaxTasks : ApplyResume(i)
    \/ \E i \in 1..MaxTasks : ApplyCancel(i)

SpecCancel == InitCancel /\ [][NextCancel]_vars

\* The operations on the loop's clock: a coroutine resumes when its sleep has
\* run out, not before.
InitLatency == Boot({Installed}, {NoKeys}, {SingleTree}, {EmptyTree})

NextLatency ==
    \/ CreateOnce(SourceDir, "p1")
    \/ ApplyStart("p1", TargetDir)
    \/ \E i \in 1..MaxTasks : WakeApply(i)
    \/ BackupStart("X")
    \/ \E i \in 1..MaxTasks : WakeBackup(i)
    \/ RollbackStart("X")
    \/ \E i \in 1..MaxTasks : WakeRollback(i)
    \/ TimePasses

SpecLatency == InitLatency /\ [][NextLatency]_vars

\* Every operation of the orchestrator, on either component, in any order
\* and interleaving.
InitStore == Boot({Installed}, {NoKeys}, {SingleTree}, {EmptyTree})

NextStore ==
    \/ EnsureKeys
    \/ CreateOnce(SourceDir, "p1")
    \/ VerifyPatch("p1", NoKey)
    \/ ApplyStart("p1", TargetDir)
    \/ \E i \in 1..MaxTasks : ApplyResume(i)
    \/ \E c \in Components : BackupStart(c)
    \/ \E i \in 1..MaxTasks : BackupResume(i)
    \/ \E c \in Components : RollbackStart(c)
    \/ \E i \in 1..MaxTasks : RollbackResume(i)

SpecStore == InitStore /\ [][NextStore]_vars

\* Patches whose header fields are rewritten after signing, verified under
\* the configured key and under others.
InitHeader == Boot({Installed, Bare}, {NoKeys}, {SingleTree}, {EmptyTree})

NextHeader ==
    \/ \E k \in {NoKey} \cup PrivKeys : CreatePatch(SourceDir, "p1", "{}", k)
    \/ \E v \in {FormatVersion} \cup OtherVersions, t \in Times \cup OtherTimes,
          m \in Metas \cup OtherMetas : EnvEditHeader("p1", v, t, m)
    \/ \E h \in BOOLEAN : EnvTamperSignature("p1", h)
    \/ \E k \in {NoKey} \cup PubKeys : VerifyPatch("p1", k)
    \/ ApplyStart("p1", TargetDir)
    \/ \E i \in 1..MaxTasks : ApplyResume(i)

SpecHeader == InitHeader /\ [][NextHeader]_vars

\* -------------------------------------------------------------- claims
\* The file at p is as create_patch_from_dir wrote it.
CleanlyMade(p) == p \in DOMAIN origin /\ origin[p].made /\ origin[p].edits = "none"

ApplyCalled == ret.op = "apply_patch" /\ ret.step = "call"
ApplyResumed == ret.op = "apply_patch" /\ ret.step = "resume"
RollbackResumed == ret.op = "rollback_component" /\ ret.step = "resume"

\* The members of the archive apply_patch reads from the file at p.
MembersAt(p) == Decompress(PayloadAtSeek(patches[p]))

\* C1: apply_patch is fail-closed.  Every suspended apply_patch holds a True
\* from verify_patch; a call whose verify_patch gives False ends with the
\* signature error, suspends nothing and changes no file; and a file changes
\* only when an apply_patch that was verified resumes.
C1_ApplyFailClosed ==
    /\ [](\A i \in DOMAIN tasks :
            tasks[i].op = "apply_patch" => tasks[i].verified = "True")
    /\ [][(ApplyCalled' /\ VerifyOutcome(hasCrypto, patches, ret'.p, signing_keys'.pub) = "False")
            => (ret'.res = "SignatureInvalid" /\ tasks' = tasks /\ fs' = fs)]_vars
    /\ [][fs' # fs
            => \E i \in DOMAIN tasks :
                  /\ tasks[i].op = "apply_patch" /\ tasks[i].verified = "True"
                  /\ tasks' = Without(tasks, i)
                  /\ ApplyResumed']_vars

\* C1's case: the signature field of a created patch had one hex digit
\* changed, and apply_patch refused it, the old files of the target in place.
C1_Witness ==
    /\ ApplyCalled /\ ret.res = "SignatureInvalid"
    /\ origin[ret.p].made /\ origin[ret.p].edits = "signature"
    /\ ret.pre = OldTarget
    /\ TreeAt(fs, ret.dir) = OldTarget

\* C2: round trip.  verify_patch without a key argument accepts a patch the
\* orchestrator created with its own key, and apply_patch of a created patch
\* into an empty target leaves in the target exactly the source's files.
C2_RoundTrip ==
    /\ (ret.op = "verify_patch" /\ ret.key = NoKey /\ CleanlyMade(ret.p)
          /\ origin[ret.p].by = signing_keys.priv)
       => ret.res = "True"
    /\ (ApplyResumed /\ CleanlyMade(ret.p) /\ ret.pre = EmptyTree)
       => (ret.res = "None" /\ TreeAt(fs, ret.dir) = origin[ret.p].tree)

\* C2's case: a tree with a file in a sub-directory arrived in an empty target.
C2_Witness ==
    /\ ApplyResumed /\ CleanlyMade(ret.p) /\ ret.pre = EmptyTree
    /\ origin[ret.p].tree = FullTree
    /\ TreeAt(fs, ret.dir) = FullTree

\* C3: path confinement.  An apply_patch whose archive has a member that
\* resolves outside the target directory is rejected whole, and no
\* apply_patch writes a file outside its target directory.
C3_PathConfinement ==
    [][ApplyResumed'
        => /\ \A q \in DOMAIN fs' :
                 (q \notin DOMAIN fs \/ fs'[q] # fs[q]) => IsUnder(q, ret'.dir)
           /\ (/\ ret'.p \in DOMAIN patches
               /\ DecompressOk(useZstd, PayloadAtSeek(patches[ret'.p]))
               /\ \E i \in DOMAIN MembersAt(ret'.p) :
                     ~IsUnder(Resolve(ret'.dir \o MembersAt(ret'.p)[i].name), ret'.dir))
              => (ret'.res = "UnsafePath" /\ fs' = fs)]_vars

\* C4: validate-then-write.  When the path check rejects a member of the
\* archive, at any position, apply_patch ends with the unsafe-path error and
\* no file has changed; files change only when every member passed.
C4_ValidateThenWrite ==
    [][(/\ ApplyResumed'
        /\ ret'.p \in DOMAIN patches
        /\ DecompressOk(useZstd, PayloadAtSeek(patches[ret'.p])))
        => LET ms == MembersAt(ret'.p)
               rejected == {i \in DOMAIN ms : ~PathIsSafe(ret'.dir, ms[i].name)}
           IN /\ rejected # {} => (ret'.res = "UnsafePath" /\ fs' = fs)
              /\ (\E i \in DOMAIN ms : ms[i].name = EscapeFar)
                    => (ret'.res = "UnsafePath" /\ fs' = fs)
              /\ fs' # fs => rejected = {}]_vars

\* C4's case: the offending member comes last, after one that is fine, and
\* the target still holds its old files.
C4_Witness ==
    /\ ApplyResumed /\ ret.res = "UnsafePath"
    /\ MembersAt(ret.p) = <<Member(FileA, 1), Member(EscapeFar, 1)>>
    /\ ret.pre = OldTarget
    /\ TreeAt(fs, ret.dir) = OldTarget

\* C5: tamper detection.  verify_patch under the signer's public key returns
\* False for a created patch with one byte of its payload changed.
C5_TamperDetected ==
    (/\ ret.op = "verify_patch"
     /\ ret.p \in DOMAIN origin
     /\ origin[ret.p].made /\ origin[ret.p].edits = "payload"
     /\ VerifyingKey(ret.key, signing_keys) = PublicOf(origin[ret.p].by))
    => ret.res = "False"

\* C6: signature soundness.  verify_patch accepts a created patch under the
\* public half of the key that signed it, given as argument or configured.
C6_SignatureSound ==
    (/\ ret.op = "verify_patch"
     /\ CleanlyMade(ret.p)
     /\ VerifyingKey(ret.key, signing_keys) = PublicOf(origin[ret.p].by))
    => ret.res = "True"

\* C6's case: Ed25519, a patch signed with a private_key argument that is not
\* the configured key, accepted under that key's public half.
C6_Witness ==
    /\ hasCrypto
    /\ ret.op = "verify_patch" /\ ret.res = "True"
    /\ CleanlyMade(ret.p)
    /\ ret.key = PublicOf(origin[ret.p].by)
    /\ ret.key # signing_keys.pub

\* C7: signature unforgeability.  verify_patch returns False for a created
\* patch under the public key of another key pair than the one that signed it.
C7_Unforgeable ==
    (/\ ret.op = "verify_patch"
     /\ CleanlyMade(ret.p)
     /\ VerifyingKey(ret.key, signing_keys) # PublicOf(origin[ret.p].by))
    => ret.res = "False"

\* C8: rollback correctness.  When rollback_component returns, the files of
\* the component are those it had when its backup was recorded.
C8_RollbackRestores ==
    (RollbackResumed /\ ret.res = "None")
    => TreeAt(fs, ComponentDir(ret.comp)) = snapshot[ret.comp]

\* C9: rollback without a backup.  A rollback_component that resumes while
\* no backup of its component is recorded ends with the no-backup error,
\* leaves the backups, the keys and the files as they were, and is not
\* started again.
C9_RollbackWithoutBackup ==
    [][(RollbackResumed' /\ ret'.comp \notin DOMAIN backups)
        => /\ ret'.res = "NoBackupFound"
           /\ UNCHANGED <<backups, snapshot, signing_keys, fs, patches, origin>>
           /\ \E i \in DOMAIN tasks :
                 /\ tasks[i].op = "rollback_component" /\ tasks[i].comp = ret'.comp
                 /\ tasks' = Without(tasks, i)]_vars

\* C9's case: the rollback failed for its component while the other
\* component has a backup.
C9_Witness ==
    /\ RollbackResumed /\ ret.res = "NoBackupFound"
    /\ ret.comp \notin DOMAIN backups
    /\ DOMAIN backups # {}

\* C10: backup before apply.  When apply_patch has written into the
\* directory of a component, a backup of that component is recorded.
C10_BackupBeforeApply ==
    (ApplyResumed /\ ret.res = "None")
    => \E c \in DOMAIN backups : ComponentDir(c) = ret.dir

\* C11: per-component mutual exclusion.  No rollback_component of a
\* component is in progress (called, not yet returned) while an apply_patch
\* into that component's directory is in progress.
C11_MutualExclusion ==
    \A i, j \in DOMAIN tasks :
        (tasks[i].op = "rollback_component" /\ tasks[j].op = "apply_patch")
        => ComponentDir(tasks[i].comp) # tasks[j].dir

\* Neither directory is the other or inside it.
Apart(d1, d2) == d1 # d2 /\ ~IsUnder(d1, d2) /\ ~IsUnder(d2, d1)

\* The files after apply_patch a, then apply_patch b, one after the other.
OneAfterTheOther(a, b) ==
    ApplyOutcome(useZstd, dataFilter, patches, b[1],
                 ApplyOutcome(useZstd, dataFilter, patches, a[1], InitialFiles, a[2]).fs,
                 b[2]).fs

\* Each of the two targets holds its own patch's files, as after either
\* sequential order.
EachItsOwn(a, b) ==
    /\ TreeAt(fs, a[2]) = origin[a[1]].tree
    /\ TreeAt(fs, b[2]) = origin[b[1]].tree
    /\ fs = OneAfterTheOther(a, b)
    /\ fs = OneAfterTheOther(b, a)

\* C12 as stated: once apply_patch operations with distinct patch files and
\* distinct target directories have returned, each target holds exactly the
\* files of its own patch, the result of either sequential order.
C12_Independence ==
    \A a, b \in applied : (a[1] # b[1] /\ a[2] # b[2]) => EachItsOwn(a, b)

\* C12, amended: the same for target directories none of which is another or
\* lies inside another; and every apply_patch in progress returns.
C12_IndependenceApart ==
    /\ [](\A a, b \in applied : (a[1] # b[1] /\ Apart(a[2], b[2])) => EachItsOwn(a, b))
    /\ (tasks # <<>>) ~> (tasks = <<>>)

\* C12's case: the first apply_patch returned while the second, into the
\* directory beside, was suspended, and its target holds its own files.
C12_Witness ==
    /\ ApplyResumed /\ ret.res = "None" /\ ret.p = "p1"
    /\ Len(tasks) = 1 /\ tasks[1].p = "p2" /\ tasks[1].dir = SiblingDir
    /\ TreeAt(fs, TargetDir) = FullTree

\* C13: keys are populated at most once.  Once config.signing_keys holds a
\* key pair, no step of any operation changes either key: not a further
\* ensure_keys, and not create_patch_from_dir, verify_patch, apply_patch,
\* create_test_backup or rollback_component.  (signing_keys is the only
\* configuration field any statement of the orchestrator reads or writes.)
C13_KeysPopulatedOnce ==
    [][KeysPresent(signing_keys) => signing_keys' = signing_keys]_vars

\* C13's case: ensure_keys was called again after the pair had signed a
\* patch, and the pair is still the one that signed.
C13_Witness ==
    /\ ret.op = "ensure_keys"
    /\ KeysPresent(signing_keys)
    /\ "p1" \in DOMAIN origin
    /\ origin["p1"].by = signing_keys.priv
    /\ <<"p1", TargetDir>> \in applied
    /\ "X" \in DOMAIN backups

\* C14: malformed signature field.  verify_patch answers a file whose header
\* parses but whose signature field is not well-formed hex by returning
\* False (or with the signature failure of the interface); no other
\* exception leaves it.
C14_MalformedSignatureRejected ==
    (/\ ret.op = "verify_patch"
     /\ ret.p \in DOMAIN patches
     /\ JsonLoadsOk(HeaderBytes(patches[ret.p]))
     /\ ~FromHexOk(HeaderBytes(patches[ret.p])[1].signature))
    => ret.res \in {"False", "SignatureInvalid"}

\* The file ends before its header does: it has nothing after the length
\* field, or fewer bytes than the field declares.
EndsEarly(f) == f.body = <<>> \/ f.hlen > Len(f.body)

\* C15: short files.  A file shorter than 4 bytes, or whose header_length
\* exceeds the bytes left in the file, is not verified as valid by
\* verify_patch, passes no apply_patch, and is not extracted.
C15_ShortFileRejected ==
    (ret.p \in DOMAIN patches /\ EndsEarly(patches[ret.p]))
    => /\ ret.op = "verify_patch" => ret.res # "True"
       /\ ApplyCalled => ret.res # "suspended"
       /\ ApplyResumed => (ret.res # "None" /\ TreeAt(fs, ret.dir) = ret.pre)

\* C16: format version.  A file whose header carries another version than
\* the one create_patch_from_dir writes is not verified as valid by
\* verify_patch, passes no apply_patch, and is not extracted.
C16_VersionRejected ==
    (/\ ret.p \in DOMAIN patches
     /\ JsonLoadsOk(HeaderBytes(patches[ret.p]))
     /\ HeaderBytes(patches[ret.p])[1].version # FormatVersion)
    => /\ ret.op = "verify_patch" => ret.res # "True"
       /\ ApplyCalled => ret.res # "suspended"
       /\ ApplyResumed => ret.res # "None"

\* C17: invalid source.  create_patch_from_dir on a source directory that
\* does not exist ends with an error and writes no patch file.
C17_InvalidSourceRejected ==
    [][(ret'.op = "create_patch_from_dir" /\ ret'.dir = MissingDir)
        => (ret'.res # "None" /\ patches' = patches)]_vars

BackupResumed == ret.op = "create_test_backup" /\ ret.step = "resume"

\* C18: one backup per component.  The store holds at most one record per
\* component name, each the complete value one create_test_backup wrote; a
\* create_test_backup that completes sets the record of its component,
\* replacing the one there was, and leaves the other records alone; nothing
\* else changes the store, so creations for one name take effect one after
\* the other.
C18_OneBackupPerComponent ==
    /\ [](/\ DOMAIN backups \subseteq Components
          /\ \A c \in DOMAIN backups : backups[c] = "dummy-backup-data")
    /\ [][BackupResumed'
            => backups' = [c \in DOMAIN backups \cup {ret'.comp} |->
                              IF c = ret'.comp THEN "dummy-backup-data" ELSE backups[c]]]_vars
    /\ [][backups' # backups => BackupResumed']_vars

\* C18's case: of two create_test_backup calls for one component in progress
\* together, one has completed and its record is in the store, and the other
\* is about to write the record of the same name.
C18_Witness ==
    /\ BackupResumed /\ ret.comp = "X"
    /\ backups["X"] = "dummy-backup-data"
    /\ \E i \in DOMAIN tasks :
          tasks[i].op = "create_test_backup" /\ tasks[i].comp = "X"

\* The contents of the files of a tree, modes left aside.
Contents(t) == [r \in DOMAIN t |-> Content(t[r])]

\* C19: idempotent apply.  apply_patch of a created patch into an empty
\* target leaves the source's paths and contents there, each time; and when
\* the apply_patch that ran last returned, the next apply_patch of the same
\* file into the same target returns as well and changes no file.
C19_IdempotentApply ==
    /\ [](/\ ApplyResumed /\ CleanlyMade(ret.p) /\ ret.pre = EmptyTree
          => /\ ret.res = "None"
             /\ Contents(TreeAt(fs, ret.dir)) = Contents(origin[ret.p].tree))
    /\ [][(/\ ApplyResumed /\ ret.res = "None"
           /\ ApplyResumed' /\ ret'.p = ret.p /\ ret'.dir = ret.dir)
            => (ret'.res = "None" /\ fs' = fs)]_vars

\* C20: a patch moves Created -> Verified -> Applied or Created ->
\* VerificationFailed and nowhere else.  Once verify_patch has returned False
\* for a patch file, the file is discarded, and the same untouched file is not
\* verified as valid or taken up by apply_patch in the step that follows.
VerificationFailed == ret.op = "verify_patch" /\ ret.res = "False"

TakenUp ==
    \/ ret.op = "verify_patch" /\ ret.res = "True"
    \/ ret.op = "apply_patch" /\ ret.res \in {"suspended", "None"}

C20_PatchLifecycle ==
    /\ [](VerificationFailed => ret.p \notin DOMAIN patches)
    /\ [][(VerificationFailed /\ CleanlyMade(ret.p) /\ patches' = patches
           /\ ret'.p = ret.p /\ ret' # ret)
            => ~TakenUp']_vars

\* C21: a patch file is immutable.  Once create_patch_from_dir has written
\* the file at a path, no step of an operation of the orchestrator
\* (verify_patch, apply_patch, create_test_backup, rollback_component, a later
\* create_patch_from_dir) changes the file at that path.
C21_PatchImmutable ==
    [][\A p \in DOMAIN patches :
          origin[p].made => (p \in DOMAIN patches' /\ patches'[p] = patches[p])]_vars

ApplyCancelled == ret.op = "apply_patch" /\ ret.step = "cancel"

\* C22: cancellation safety.  apply_patch yields control at its sleep only,
\* after verification and before the payload is read.  A cancellation there
\* ends the task and changes no file, so the target directory is as the step
\* found it; and the files of the target change only in the step in which an
\* apply_patch resumes and runs to its end, never in a step that a
\* cancellation can cut short.
C22_CancellationSafe ==
    /\ [][ApplyCancelled'
            => /\ fs' = fs
               /\ TreeAt(fs', ret'.dir) = ret'.pre
               /\ Len(tasks') = Len(tasks) - 1]_vars
    /\ [][fs' # fs => (ApplyResumed' /\ Len(tasks') = Len(tasks) - 1)]_vars

\* C22's case: of two apply_patch calls into a target with old files, both
\* verified and suspended, one was cancelled; the target holds its old files
\* and the other call is still to resume.
C22_Witness ==
    /\ ApplyCancelled
    /\ CleanlyMade(ret.p) /\ origin[ret.p].tree = FullTree
    /\ ret.pre = OldTarget
    /\ TreeAt(fs, ret.dir) = OldTarget
    /\ Len(tasks) = 1 /\ tasks[1].op = "apply_patch"

\* C23: rollback latency.  Under normal conditions a rollback_component of a
\* component that has a backup returns within the budget of 200 ms after its
\* call: no suspended rollback_component has waited longer than the budget,
\* one that is due can be resumed at once, whatever else is suspended, and
\* when it returns no more than the budget has passed since its call.
C23_RollbackLatency ==
    /\ [](\A i \in DOMAIN tasks :
            tasks[i].op = "rollback_component"
            => /\ clock - tasks[i].called <= RollbackBudget
               /\ Due(i) => \E j \in DOMAIN tasks : Due(j) /\ CanResume(j))
    /\ [][(RollbackResumed' /\ ret'.res = "None" /\ Len(tasks') < Len(tasks))
            => \E i \in DOMAIN tasks :
                  /\ tasks[i].op = "rollback_component" /\ tasks[i].comp = ret'.comp
                  /\ tasks' = Without(tasks, i)
                  /\ clock' - tasks[i].called <= RollbackBudget]_vars

\* C23's case: a rollback_component called after the clock had moved on has
\* returned for a component with a backup, while an apply_patch is suspended.
C23_Witness ==
    /\ RollbackResumed /\ ret.res = "None"
    /\ "X" \in DOMAIN backups
    /\ clock > RollbackDelay + BackupDelay
    /\ \E i \in DOMAIN tasks : tasks[i].op = "apply_patch"

\* C24: no gap between verification and extraction.  Whenever an apply_patch
\* resumes, the payload it reads from the file and decompresses is the payload
\* its verify_patch hashed before the sleep, whatever ran in between, a
\* create_patch_from_dir to the same path included.
C24_NoVerifyExtractGap ==
    [][(ApplyResumed' /\ Len(tasks') < Len(tasks))
        => \E i \in DOMAIN tasks :
              /\ tasks[i].op = "apply_patch"
              /\ tasks[i].p = ret'.p /\ tasks[i].dir = ret'.dir
              /\ tasks' = Without(tasks, i)
              /\ PayloadAtSeek(patches[tasks[i].p]) = tasks[i].payload]_vars

\* A step in which a suspended coroutine ran to its end.
TaskEnded == Len(tasks') < Len(tasks)

\* C25: the backup store is changed by backup creation only.  No step of
\* create_patch_from_dir, verify_patch, apply_patch, ensure_keys or
\* rollback_component changes the backup records; and the step in which
\* create_test_backup(X) completes sets the record of X, leaves the record of
\* every other component, the key pair, the data files and the patch files as
\* they were.
C25_StoreFrame ==
    /\ [][ret'.op # "create_test_backup" => backups' = backups]_vars
    /\ [][(BackupResumed' /\ TaskEnded)
            => /\ DOMAIN backups' = DOMAIN backups \cup {ret'.comp}
               /\ \A c \in DOMAIN backups \ {ret'.comp} : backups'[c] = backups[c]
               /\ signing_keys' = signing_keys
               /\ fs' = fs
               /\ patches' = patches]_vars

\* C25's case: create_test_backup(Y) completed while X had a record, the key
\* pair was set and the patch had been applied; X's record is in place.
C25_Witness ==
    /\ BackupResumed /\ ret.comp = "Y"
    /\ DOMAIN backups = {"X", "Y"}
    /\ KeysPresent(signing_keys)
    /\ <<"p1", TargetDir>> \in applied

\* C26: the signature binds the payload only.  Two patch files that differ
\* only in the version, created and metadata fields of their headers get the
\* same result from verify_patch under every public key; so a verify_patch
\* that follows such an edit of the file answers as the one before did.
C26_HeaderNotBound ==
    /\ [][ret'.op = "env_edit_header"
            => \A k \in PubKeys :
                  VerifyOutcome(hasCrypto, patches', ret'.p, k)
                      = VerifyOutcome(hasCrypto, patches, ret'.p, k)]_vars
    /\ [](/\ ret.op = "verify_patch"
          /\ CleanlyMade(ret.p) \/ (ret.p \in DOMAIN origin /\ origin[ret.p].edits = "header")
          => ret.res = IF VerifyingKey(ret.key, signing_keys) = PublicOf(origin[ret.p].by)
                          \/ ~hasCrypto
                       THEN "True" ELSE "False")

\* C26's case: Ed25519, a created patch whose header came to carry another
\* version, another time and other metadata was verified as valid.
C26_Witness ==
    /\ hasCrypto
    /\ ret.op = "verify_patch" /\ ret.res = "True"
    /\ origin[ret.p].made /\ origin[ret.p].edits = "header"
    /\ LET header == HeaderBytes(patches[ret.p])[1]
       IN /\ header.version # FormatVersion
          /\ header.created \in OtherTimes
          /\ header.metadata \in OtherMetas

\* The header of file f parses and its signature field is hex.
HexSigned(f) ==
    /\ JsonLoadsOk(HeaderBytes(f))
    /\ FromHexOk(HeaderBytes(f)[1].signature)

\* In the fallback backend, verify_patch returns True for every file whose
\* header parses and whose signature field is hex, and apply_patch passes
\* such a file on to its sleep.
FallbackAccepts ==
    (/\ ~hasCrypto
     /\ ret.p \in DOMAIN patches
     /\ HexSigned(patches[ret.p]))
    => /\ ret.op = "verify_patch" => ret.res = "True"
       /\ ApplyCalled => ret.res = "suspended"

\* C27 as stated: in the fallback backend verify_patch returns True for every
\* patch file whose header parses and whose signature field is hex, whatever
\* the payload, the signature value and the public key, and apply_patch
\* extracts every such file.
C27_FallbackExtractsAll ==
    /\ []FallbackAccepts
    /\ [][(/\ ~hasCrypto
           /\ ApplyResumed' /\ TaskEnded
           /\ ret'.p \in DOMAIN patches
           /\ HexSigned(patches[ret'.p]))
            => ret'.res = "None"]_vars

\* C27, amended: the same of verify_patch; apply_patch never refuses such a
\* file on its signature, and extracts it when its payload decompresses,
\* every member passes the path check and tarfile can write every member.
C27_FallbackExtractsDecodable ==
    /\ []FallbackAccepts
    /\ [][(/\ ~hasCrypto
           /\ ApplyResumed' /\ TaskEnded
           /\ ret'.p \in DOMAIN patches
           /\ HexSigned(patches[ret'.p])
           /\ DecompressOk(useZstd, PayloadAtSeek(patches[ret'.p]))
           /\ AllSafe(ret'.dir, MembersAt(ret'.p))
           /\ \A i \in DOMAIN MembersAt(ret'.p) :
                 LET q == Resolve(ret'.dir \o MembersAt(ret'.p)[i].name)
                 IN ~FilterRejects(dataFilter, ret'.dir, MembersAt(ret'.p)[i].name)
                    /\ ~CannotWrite(fs, q))
            => /\ ret'.res = "None"
               /\ \A i \in DOMAIN MembersAt(ret'.p) :
                     Resolve(ret'.dir \o MembersAt(ret'.p)[i].name) \in DOMAIN fs']_vars

\* C27's case: in the fallback backend a created patch whose signature bytes
\* were changed has been extracted into the empty target.
C27_Witness ==
    /\ ~hasCrypto
    /\ ApplyResumed /\ ret.res = "None"
    /\ origin[ret.p].made /\ origin[ret.p].edits = "signature"
    /\ ret.pre = EmptyTree
    /\ TreeAt(fs, ret.dir) = FullTree

\* C28: backup records are never removed.  The set of components that have
\* a record only grows; every component whose create_test_backup has
\* completed has a record from then on; and every rollback_component of such
\* a component that resumes returns without error, a repeated one as well.
C28_BackupsOnlyGrow ==
    /\ [][DOMAIN backups \subseteq DOMAIN backups']_vars
    /\ [](DOMAIN snapshot \subseteq DOMAIN backups)
    /\ [][(RollbackResumed' /\ TaskEnded /\ ret'.comp \in DOMAIN snapshot)
            => ret'.res = "None"]_vars

\* C28's case: a rollback_component of X has returned and another one of X
\* is still to resume, after the patch was applied and both components were
\* backed up.
C28_Witness ==
    /\ RollbackResumed /\ ret.res = "None" /\ ret.comp = "X"
    /\ DOMAIN backups = Components
    /\ <<"p1", TargetDir>> \in applied
    /\ \E i \in DOMAIN tasks :
          tasks[i].op = "rollback_component" /\ tasks[i].comp = "X"

\* C29: rollback_component looks for the backup when it resumes, not when it
\* is called.  A rollback_component that resumes raises exactly when the
\* store holds no record of its component at that moment: called while there
\* was none, it returns if a create_test_backup of the component stored the
\* record in the meantime, and raises if it resumes first.
C29_DecidedAtResume ==
    [][(RollbackResumed' /\ TaskEnded)
        => /\ ret'.res = "NoBackupFound" <=> ret'.comp \notin DOMAIN backups
           /\ ret'.res = "None" <=> ret'.comp \in DOMAIN backups
           /\ backups' = backups]_vars

\* C29's case: a rollback_component has returned at the earliest moment one
\* can; it was called at the start, when no component had a backup, and the
\* create_test_backup called beside it stored the record while it slept.
C29_Witness ==
    /\ RollbackResumed /\ ret.res = "None" /\ ret.comp = "X"
    /\ clock = RollbackDelay
    /\ tasks = <<>>

\* The paths the entries of an archive name, resolved against directory dir.
EntryPaths(dir, members) == {Resolve(dir \o members[i].name) : i \in DOMAIN members}

\* The archive the apply_patch of file p reads when it resumes: no entries
\* when the file is gone or its payload does not decompress.
EntriesRead(p) ==
    IF p \in DOMAIN patches /\ DecompressOk(useZstd, PayloadAtSeek(patches[p]))
    THEN MembersAt(p) ELSE <<>>

\* C30: apply_patch creates or overwrites files at the paths its archive's
\* entries name, and nowhere else: a file there was before that no entry
\* names keeps its content, no file is deleted, and after an apply_patch that
\* returned the target holds the files it had and the files of the patch,
\* the patch's content on the paths both have.
C30_ApplyFrame ==
    [][(ApplyResumed' /\ TaskEnded)
        => LET ms == EntriesRead(ret'.p)
               named == EntryPaths(ret'.dir, ms)
           IN /\ DOMAIN fs \subseteq DOMAIN fs'
              /\ \A q \in DOMAIN fs : q \notin named => fs'[q] = fs[q]
              /\ DOMAIN fs' \subseteq DOMAIN fs \cup named
              /\ ret'.res = "None"
                    => /\ DOMAIN fs' = DOMAIN fs \cup named
                       /\ \A i \in DOMAIN ms :
                             LET q == Resolve(ret'.dir \o ms[i].name)
                             IN \E j \in DOMAIN ms :
                                   /\ Resolve(ret'.dir \o ms[j].name) = q
                                   /\ Content(fs'[q]) = Content(ms[j].data)]_vars

\* C30's case: the patch, which holds a alone, was applied to a target that
\* held a with other content and u/b; a has the patch's content, u/b is as
\* it was.
C30_Witness ==
    /\ ApplyResumed /\ ret.res = "None"
    /\ DOMAIN ret.pre = RelPaths
    /\ ret.pre[FileA] # origin[ret.p].tree[FileA]
    /\ DOMAIN origin[ret.p].tree = {FileA}
    /\ TreeAt(fs, ret.dir) = [r \in RelPaths |->
                                 IF r = FileA THEN origin[ret.p].tree[FileA] ELSE ret.pre[r]]

====
